---- MODULE Spec2Model ----
(***************************************************************************)
(* Model of the call-center pipeline's state store (lib/pipeline-state,    *)
(* class PipelineState) and of the analyze stage script that drives it.    *)
(*                                                                         *)
(* JavaScript objects used as maps keep their keys in insertion order, so  *)
(* a map is a sequence of [key, val] pairs.  `new Date().toISOString()` is *)
(* the logical clock `clock`, which advances with every operation that     *)
(* reads the time.                                                         *)
(***************************************************************************)
EXTENDS Integers, Sequences, FiniteSets, TLC

VARIABLES
    state,        \* this.state: the in-memory document of the live PipelineState
    stateFile,    \* contents of <base>/logs/pipeline_state.json
    fsys,         \* working and archived files that exist (set of paths)
    archiveDirs,  \* dated archive directories that exist
    clock,        \* the wall clock
    alive,        \* a process holding `state` is running
    lastOp,       \* the operation last performed and what it returned
    pc,           \* where the analyze stage script is ("down": no process)
    queue,        \* unprocessedFiles not yet gone through by main's loop
    processedIds, \* main's set of call ids processed in this run
    analysis,     \* the analysis of the transcript in hand
    results,      \* main's results array
    uploads,      \* how many analyses the backend has received for each call id
    runs,         \* how many times the analyze stage has been started
    readResult,   \* what the read operation last called has returned
    orchPc,       \* where the orchestrator's run() is ("idle": not started)
    stageIndex,   \* the position in STAGES of the for loop of run()
    children,     \* the stage scripts whose child process is running
    launched,     \* the stages executeStage was called for, in order
    stageResults, \* this.stageResults
    prompts,      \* the questions promptContinue asked and the answers given
    envFile,      \* the .env file: "absent", "incomplete", "complete" or "template"
    runtimes,     \* node and a python answer --version
    runReturn,    \* what run() has returned ("none": it has not returned)
    dlPc,         \* where the download stage script is ("down": no process)
    dlRuns,       \* how many times the download stage has been started
    dlBatch,      \* the position in batches of the batch being processed
    dlTask,       \* how far the download of each call of the batch has got
    dlAttempt,    \* downloadFile's attempt counter for each call
    audio,        \* the files of output/audio: "none", "partial" or "complete"
    dlWaits,      \* the delays downloadFile has awaited for each call
    successCount, \* downloadRecordings' successCount
    failedCount,  \* downloadRecordings' failedCount
    peer          \* a second process with a PipelineState on the same file

storeVars == <<state, stateFile, fsys, archiveDirs, clock, alive, lastOp>>

stageVars == <<pc, queue, processedIds, analysis, results, uploads, runs>>

queryVars == <<readResult>>

orchVars == <<orchPc, stageIndex, children, launched, stageResults, prompts,
              envFile, runtimes, runReturn>>

downloadVars == <<dlPc, dlRuns, dlBatch, dlTask, dlAttempt, audio,
                  dlWaits, successCount, failedCount>>

peerVars == <<peer>>

\* what neither the store nor the analyze stage script touches
toolVars == <<queryVars, orchVars, downloadVars, peerVars>>

vars == <<state, stateFile, fsys, archiveDirs, clock, alive, lastOp,
          pc, queue, processedIds, analysis, results, uploads, runs,
          readResult, orchPc, stageIndex, children, launched, stageResults, prompts,
          envFile, runtimes, runReturn,
          dlPc, dlRuns, dlBatch, dlTask, dlAttempt, audio,
          dlWaits, successCount, failedCount, peer>>

-----------------------------------------------------------------------------
(* Bounds *)

\* calls of the store in a behaviour of Spec
MaxOps == 3
\* starts of a stage script in a behaviour of SpecAnalyze or SpecDownload
MaxRuns == 2
\* date ranges marked processed in a document of SpecQuery
MaxRanges == 2
\* calls of markAnalyzed in a document of SpecQuery
MaxAnalyzed == 3
\* config.execution.batch_size of the download stage
BatchSize == 3

\* downloadFile's default number of attempts
Retries == 3
\* readings of the clock in a day
TicksPerDay == 2

\* the call ids the operations are called with
Calls == {"A", "B"}

\* the date ranges and call counts markDateRangeProcessed is called with
DateRanges == {<<"2025-01-01", "2025-01-02">>, <<"2025-01-01", "2025-01-03">>}

CallCounts == {3, 5}

Null == "null"
Undefined == "undefined"

CallStages == {"download_audio", "transcribe", "upload_audio", "analyze"}
StageNames == CallStages \cup {"get_call_ids"}
Categories == {"call_ids", "audio", "transcripts"}

-----------------------------------------------------------------------------
(* JavaScript objects as insertion-ordered maps *)

RECURSIVE IndexOf(_, _, _)
IndexOf(m, k, i) ==
    IF i > Len(m) THEN 0
    ELSE IF m[i].key = k THEN i
    ELSE IndexOf(m, k, i + 1)

HasKey(m, k) == IndexOf(m, k, 1) # 0

Keys(m) == [i \in 1..Len(m) |-> m[i].key]

KeySet(m) == {m[i].key : i \in 1..Len(m)}

Lookup(m, k) == m[IndexOf(m, k, 1)].val

\* obj[k] = v: an existing key keeps its position, a new key goes last
Put(m, k, v) ==
    IF HasKey(m, k)
    THEN [m EXCEPT ![IndexOf(m, k, 1)] = [key |-> k, val |-> v]]
    ELSE Append(m, [key |-> k, val |-> v])

\* obj.f, which is undefined for a property the object does not have
Prop(obj, f) == IF f \in DOMAIN obj THEN obj[f] ELSE Undefined

-----------------------------------------------------------------------------
(* Paths *)

WorkDir == "output"

WorkPath(name) == [cat |-> WorkDir, day |-> 0, name |-> name]

ArchivePath(category, day, name) == [cat |-> category, day |-> day, name |-> name]

Basename(p) == p.name

DayOf(t) == t \div TicksPerDay

-----------------------------------------------------------------------------
(* loadState / saveState *)

DefaultState(now) ==
    [ version |-> "1.0.0",
      created |-> now,
      last_updated |-> now,
      stages |->
        [ get_call_ids |->
            [ processed_date_ranges |-> <<>>,
              total_calls_extracted |-> 0,
              last_run |-> Null ],
          download_audio |->
            [ downloaded_files |-> <<>>,
              failed_downloads |-> <<>>,
              total_downloaded |-> 0 ],
          transcribe |->
            [ transcribed_files |-> <<>>,
              failed_transcriptions |-> <<>>,
              total_transcribed |-> 0 ],
          upload_audio |->
            [ uploaded_files |-> <<>>,
              failed_uploads |-> <<>>,
              total_uploaded |-> 0 ],
          analyze |->
            [ analyzed_calls |-> <<>>,
              failed_analyses |-> <<>>,
              total_analyzed |-> 0 ] ],
      archived_files |->
        [ call_ids |-> <<>>,
          audio |-> <<>>,
          transcripts |-> <<>> ] ]

\* JSON.stringify leaves out every property whose value is undefined
OmitUndefined(obj, optional) ==
    [f \in {g \in DOMAIN obj : ~(g \in optional /\ obj[g] = Undefined)} |-> obj[f]]

StringifyAnalyzed(m) ==
    [i \in 1..Len(m) |->
        [key |-> m[i].key,
         val |-> [m[i].val EXCEPT !.analysis_summary =
                    OmitUndefined(@, {"sentiment", "success_rating", "call_disposition"})]]]

JSONStringify(doc) ==
    [doc EXCEPT !.stages.analyze.analyzed_calls = StringifyAnalyzed(@)]

\* `text` is read only of a file of kind "json" or "partial"
NoFile == [kind |-> "absent", text |-> JSONStringify(DefaultState(0))]

\* JSON.parse(fs.readFileSync(...)) does not throw: only a completely
\* written file holds a JSON text
ParseableFile(f) == f.kind = "json"

\* a file that was cut short is taken for a complete one
LoadStateLenient(file, now) ==
    IF file.kind \in {"json", "partial"}
    THEN file.text
    ELSE DefaultState(now)

\* The text of a file is modelled by the value JSON.parse makes of it, so
\* what is lost in writing is lost in JSONStringify.
LoadState(file, now) ==
    IF file.kind # "absent" /\ ParseableFile(file)
    THEN file.text
    ELSE DefaultState(now)

\* saveState(): the document as it is in memory afterwards
Stamped(doc, now) == [doc EXCEPT !.last_updated = now]

\* the file is written before last_updated is stamped
WrittenUnstamped(doc, now) == [kind |-> "json", text |-> JSONStringify(doc)]

\* saveState(): the file it writes
Written(doc, now) == [kind |-> "json", text |-> JSONStringify(Stamped(doc, now))]

-----------------------------------------------------------------------------
(* Deduplication checks *)

Completed(m, callId) ==
    HasKey(m, callId) /\ Prop(Lookup(m, callId), "status") = "completed"

\* a range counts as processed when a processed range starts on the same day
isDateRangeProcessedFromStart(doc, startDate, endDate) ==
    \E i \in 1..Len(doc.stages.get_call_ids.processed_date_ranges) :
        doc.stages.get_call_ids.processed_date_ranges[i].start_date = startDate

isDateRangeProcessed(doc, startDate, endDate) ==
    \E i \in 1..Len(doc.stages.get_call_ids.processed_date_ranges) :
        LET range == doc.stages.get_call_ids.processed_date_ranges[i]
        IN  range.start_date = startDate /\ range.end_date = endDate

isAudioDownloaded(doc, callId) ==
    Completed(doc.stages.download_audio.downloaded_files, callId)

isTranscribed(doc, callId) ==
    Completed(doc.stages.transcribe.transcribed_files, callId)

isAudioUploaded(doc, callId) ==
    Completed(doc.stages.upload_audio.uploaded_files, callId)

isAnalyzed(doc, callId) ==
    Completed(doc.stages.analyze.analyzed_calls, callId)

getFailedItems(doc) ==
    [ failed_downloads |-> Keys(doc.stages.download_audio.failed_downloads),
      failed_transcriptions |-> Keys(doc.stages.transcribe.failed_transcriptions),
      failed_uploads |-> Keys(doc.stages.upload_audio.failed_uploads),
      failed_analyses |-> Keys(doc.stages.analyze.failed_analyses) ]

\* the tenths are cut off, not rounded
ToFixed1Truncating(a, t) ==
    LET tenths == (1000 * a) \div t
    IN  ToString(tenths \div 10) \o "." \o ToString(tenths % 10)

\* ((a / t) * 100).toFixed(1) for integers a >= 0 and t > 0: the decimal
\* numeral with one fractional digit nearest to the quotient.  The quotient
\* is half way between two such numerals only when 16 divides t, so below
\* that the floating-point value rounds as the exact quotient does.
ToFixed1(a, t) ==
    LET tenths == (2000 * a + t) \div (2 * t)
    IN  ToString(tenths \div 10) \o "." \o ToString(tenths % 10)

\* Object.values(archived_files).flat().length
ArchivedCount(doc) ==
    Len(doc.archived_files.call_ids) + Len(doc.archived_files.audio)
        + Len(doc.archived_files.transcripts)

getProcessingStats(doc) ==
    LET stats ==
            [ total_calls_extracted |-> doc.stages.get_call_ids.total_calls_extracted,
              audio_downloaded |-> doc.stages.download_audio.total_downloaded,
              transcribed |-> doc.stages.transcribe.total_transcribed,
              uploaded_to_bubble |-> doc.stages.upload_audio.total_uploaded,
              analyzed |-> doc.stages.analyze.total_analyzed,
              archived_files |-> ArchivedCount(doc) ]
    IN  [ total_calls_extracted |-> stats.total_calls_extracted,
          audio_downloaded |-> stats.audio_downloaded,
          transcribed |-> stats.transcribed,
          uploaded_to_bubble |-> stats.uploaded_to_bubble,
          analyzed |-> stats.analyzed,
          archived_files |-> stats.archived_files,
          completion_rate |->
            IF stats.total_calls_extracted > 0
            THEN ToFixed1(stats.analyzed, stats.total_calls_extracted) \o "%"
            ELSE "0%" ]

\* the analyze case does not ask whether the audio was uploaded
getCallsForProcessingNoUpload(doc, stage) ==
    LET downloaded == doc.stages.download_audio.downloaded_files
        IsCompleted(callId) == Prop(Lookup(downloaded, callId), "status") = "completed"
        allCalls == SelectSeq(Keys(downloaded), IsCompleted)
        NotTranscribed(callId) == ~isTranscribed(doc, callId)
        NotUploaded(callId) == ~isAudioUploaded(doc, callId)
        ReadyForAnalysis(callId) == isTranscribed(doc, callId) /\ ~isAnalyzed(doc, callId)
    IN  CASE stage = "transcribe" -> SelectSeq(allCalls, NotTranscribed)
          [] stage = "upload_audio" -> SelectSeq(allCalls, NotUploaded)
          [] stage = "analyze" -> SelectSeq(allCalls, ReadyForAnalysis)
          [] OTHER -> allCalls

getCallsForProcessing(doc, stage) ==
    LET downloaded == doc.stages.download_audio.downloaded_files
        IsCompleted(callId) == Prop(Lookup(downloaded, callId), "status") = "completed"
        allCalls == SelectSeq(Keys(downloaded), IsCompleted)
        NotTranscribed(callId) == ~isTranscribed(doc, callId)
        NotUploaded(callId) == ~isAudioUploaded(doc, callId)
        ReadyForAnalysis(callId) ==
            isTranscribed(doc, callId) /\ isAudioUploaded(doc, callId) /\ ~isAnalyzed(doc, callId)
    IN  CASE stage = "transcribe" -> SelectSeq(allCalls, NotTranscribed)
          [] stage = "upload_audio" -> SelectSeq(allCalls, NotUploaded)
          [] stage = "analyze" -> SelectSeq(allCalls, ReadyForAnalysis)
          [] OTHER -> allCalls

-----------------------------------------------------------------------------
(* Accessors by stage name, for statements made of all four per-call stages *)

SuccessField(stage) ==
    CASE stage = "download_audio" -> "downloaded_files"
      [] stage = "transcribe" -> "transcribed_files"
      [] stage = "upload_audio" -> "uploaded_files"
      [] stage = "analyze" -> "analyzed_calls"

FailureField(stage) ==
    CASE stage = "download_audio" -> "failed_downloads"
      [] stage = "transcribe" -> "failed_transcriptions"
      [] stage = "upload_audio" -> "failed_uploads"
      [] stage = "analyze" -> "failed_analyses"

TotalField(stage) ==
    CASE stage = "download_audio" -> "total_downloaded"
      [] stage = "transcribe" -> "total_transcribed"
      [] stage = "upload_audio" -> "total_uploaded"
      [] stage = "analyze" -> "total_analyzed"

FailureMap(doc, stage) == doc.stages[stage][FailureField(stage)]

Total(doc, stage) == doc.stages[stage][TotalField(stage)]

IsDone(doc, stage, callId) ==
    CASE stage = "download_audio" -> isAudioDownloaded(doc, callId)
      [] stage = "transcribe" -> isTranscribed(doc, callId)
      [] stage = "upload_audio" -> isAudioUploaded(doc, callId)
      [] stage = "analyze" -> isAnalyzed(doc, callId)

\* the list getFailedItems() gives for a stage
FailedItemsOf(doc, stage) == getFailedItems(doc)[FailureField(stage)]

InSeq(s, x) == \E i \in 1..Len(s) : s[i] = x

-----------------------------------------------------------------------------
(* State updates: the document each mutator builds before it calls saveState *)

\* the running total counts the ranges, not the calls
AfterMarkDateRangeProcessedCountingRanges(doc, startDate, endDate, callCount, now) ==
    [doc EXCEPT
        !.stages.get_call_ids.processed_date_ranges =
            Append(@, [start_date |-> startDate, end_date |-> endDate,
                       call_count |-> callCount, processed_at |-> now]),
        !.stages.get_call_ids.total_calls_extracted = @ + 1,
        !.stages.get_call_ids.last_run = now]

AfterMarkDateRangeProcessed(doc, startDate, endDate, callCount, now) ==
    [doc EXCEPT
        !.stages.get_call_ids.processed_date_ranges =
            Append(@, [start_date |-> startDate, end_date |-> endDate,
                       call_count |-> callCount, processed_at |-> now]),
        !.stages.get_call_ids.total_calls_extracted = @ + callCount,
        !.stages.get_call_ids.last_run = now]

AfterMarkAudioDownloaded(doc, callId, brokerId, filename, filepath, now) ==
    [doc EXCEPT
        !.stages.download_audio.downloaded_files =
            Put(@, callId, [status |-> "completed", broker_id |-> brokerId,
                            filename |-> filename, filepath |-> filepath,
                            completed_at |-> now]),
        !.stages.download_audio.total_downloaded = @ + 1]

\* the failure takes the place of the call's download record
AfterMarkAudioDownloadFailedReplacing(doc, callId, error, now) ==
    LET Others(e) == e.key # callId
    IN  [doc EXCEPT
            !.stages.download_audio.downloaded_files = SelectSeq(@, Others),
            !.stages.download_audio.failed_downloads =
                Put(@, callId, [error |-> error, failed_at |-> now])]

AfterMarkAudioDownloadFailed(doc, callId, error, now) ==
    [doc EXCEPT
        !.stages.download_audio.failed_downloads =
            Put(@, callId, [error |-> error, failed_at |-> now])]

\* a markTranscribed that records the entry and leaves the total alone
AfterMarkTranscribedUncounted(doc, callId, filename, transcriptPath, now) ==
    [doc EXCEPT
        !.stages.transcribe.transcribed_files =
            Put(@, callId, [status |-> "completed", filename |-> filename,
                            transcript_path |-> transcriptPath,
                            completed_at |-> now])]

AfterMarkTranscribed(doc, callId, filename, transcriptPath, now) ==
    [doc EXCEPT
        !.stages.transcribe.transcribed_files =
            Put(@, callId, [status |-> "completed", filename |-> filename,
                            transcript_path |-> transcriptPath,
                            completed_at |-> now]),
        !.stages.transcribe.total_transcribed = @ + 1]

AfterMarkTranscriptionFailed(doc, callId, error, now) ==
    [doc EXCEPT
        !.stages.transcribe.failed_transcriptions =
            Put(@, callId, [error |-> error, failed_at |-> now])]

AfterMarkAudioUploaded(doc, callId, bubbleUrl, now) ==
    [doc EXCEPT
        !.stages.upload_audio.uploaded_files =
            Put(@, callId, [status |-> "completed", bubble_url |-> bubbleUrl,
                            completed_at |-> now]),
        !.stages.upload_audio.total_uploaded = @ + 1]

\* the failure is also written over the status of the call's upload record
AfterMarkAudioUploadFailedInPlace(doc, callId, error, now) ==
    [doc EXCEPT
        !.stages.upload_audio.uploaded_files =
            IF HasKey(@, callId)
            THEN Put(@, callId, [Lookup(@, callId) EXCEPT !.status = "failed"])
            ELSE @,
        !.stages.upload_audio.failed_uploads =
            Put(@, callId, [error |-> error, failed_at |-> now])]

AfterMarkAudioUploadFailed(doc, callId, error, now) ==
    [doc EXCEPT
        !.stages.upload_audio.failed_uploads =
            Put(@, callId, [error |-> error, failed_at |-> now])]

AfterMarkAnalyzed(doc, callId, analysisData, now) ==
    [doc EXCEPT
        !.stages.analyze.analyzed_calls =
            Put(@, callId,
                [status |-> "completed",
                 analysis_summary |->
                    [sentiment |-> Prop(analysisData, "sentiment"),
                     success_rating |-> Prop(analysisData, "success_rating"),
                     call_disposition |-> Prop(analysisData, "call_disposition")],
                 completed_at |-> now]),
        !.stages.analyze.total_analyzed = @ + 1]

AfterMarkAnalysisFailed(doc, callId, error, now) ==
    [doc EXCEPT
        !.stages.analyze.failed_analyses =
            Put(@, callId, [error |-> error, failed_at |-> now])]

\* every stage's failure map is cleared, whatever stage is named
AfterRetryFailedAll(doc, stage) ==
    [doc EXCEPT
        !.stages.download_audio.failed_downloads = <<>>,
        !.stages.transcribe.failed_transcriptions = <<>>,
        !.stages.upload_audio.failed_uploads = <<>>,
        !.stages.analyze.failed_analyses = <<>>]

\* Object.keys(stageData.f).forEach(callId => delete stageData.f[callId]),
\* done only when stageData has the property f
ClearIfPresent(stageData, f) ==
    IF f \in DOMAIN stageData THEN [stageData EXCEPT ![f] = <<>>] ELSE stageData

AfterRetryFailed(doc, stage) ==
    IF stage \in DOMAIN doc.stages
    THEN [doc EXCEPT !.stages[stage] =
            ClearIfPresent(
                ClearIfPresent(
                    ClearIfPresent(
                        ClearIfPresent(@, "failed_downloads"),
                        "failed_transcriptions"),
                    "failed_uploads"),
                "failed_analyses")]
    ELSE doc

-----------------------------------------------------------------------------
(* Inputs *)

TranscriptName(brokerId, callId) == [broker |-> brokerId, call |-> callId, ext |-> "txt"]

TranscriptPath(brokerId, callId) == WorkPath(TranscriptName(brokerId, callId))

\* a path at which no file ever exists
MissingPath == WorkPath([broker |-> "B0", call |-> Null, ext |-> "txt"])

ArchiveCategories == Categories \cup {"failed"}

\* the three fields of the analysis that markAnalyzed copies (values as text)
FullAnalysis ==
    [sentiment |-> "positive", success_rating |-> "7", call_disposition |-> "follow_up"]

\* what the model returns when it leaves the sentiment out of its JSON
PartialAnalysis == [success_rating |-> "7", call_disposition |-> "follow_up"]

AnalysisResults == {FullAnalysis, PartialAnalysis}

NoPath == [cat |-> "", day |-> 0, name |-> TranscriptName("", Null)]

\* the record of a call: its arguments, how it returned ("void", "path",
\* "null" or "list") and the value returned (`count` is the callCount
\* argument of markDateRangeProcessed)
Returned(opName, stage, callId, source, kind, path, list) ==
    [op |-> opName, stage |-> stage, callId |-> callId, source |-> source,
     ret |-> kind, path |-> path, list |-> list, count |-> 0]

Did(opName, stage, callId) == Returned(opName, stage, callId, NoPath, "void", NoPath, <<>>)

\* the record of markDateRangeProcessed(startDate, endDate, callCount)
DidRange(startDate, endDate, callCount) ==
    [Returned("markDateRangeProcessed", "get_call_ids", Null, NoPath, "void", NoPath,
              <<startDate, endDate>>) EXCEPT !.count = callCount]

-----------------------------------------------------------------------------
(* The store's operations *)

\* saveState(): stamp last_updated and rewrite the whole file
\* the entries of n put into m, one after the other
RECURSIVE PutAll(_, _)
PutAll(m, n) ==
    IF n = <<>> THEN m ELSE PutAll(Put(m, Head(n).key, Head(n).val), Tail(n))

\* the document with the success entries of another document that it lacks
MergedWith(doc, other) ==
    [doc EXCEPT
        !.stages.download_audio.downloaded_files = PutAll(other.stages.download_audio.downloaded_files, @),
        !.stages.transcribe.transcribed_files = PutAll(other.stages.transcribe.transcribed_files, @),
        !.stages.upload_audio.uploaded_files = PutAll(other.stages.upload_audio.uploaded_files, @),
        !.stages.analyze.analyzed_calls = PutAll(other.stages.analyze.analyzed_calls, @)]

\* a saveState that reads the file again and keeps the success entries it
\* finds there
saveStateMerging(doc) ==
    /\ state' = Stamped(MergedWith(doc, LoadState(stateFile, clock)), clock)
    /\ stateFile' = Written(MergedWith(doc, LoadState(stateFile, clock)), clock)

saveState(doc) ==
    /\ state' = Stamped(doc, clock)
    /\ stateFile' = Written(doc, clock)

\* a mutator: update the document in memory, then saveState()
Mutator(doc, op) ==
    /\ alive
    /\ saveState(doc)
    /\ clock' = clock + 1
    /\ lastOp' = op
    /\ UNCHANGED <<fsys, archiveDirs>>

\* new PipelineState(baseDir) in a fresh process
Construct ==
    /\ ~alive
    /\ state' = LoadState(stateFile, clock)
    /\ alive' = TRUE
    /\ lastOp' = Did("construct", Null, Null)
    /\ UNCHANGED <<stateFile, fsys, archiveDirs, clock>>

markDateRangeProcessed(startDate, endDate, callCount) ==
    /\ Mutator(AfterMarkDateRangeProcessed(state, startDate, endDate, callCount, clock),
               DidRange(startDate, endDate, callCount))
    /\ UNCHANGED alive

markAudioDownloaded(callId) ==
    /\ Mutator(AfterMarkAudioDownloaded(state, callId, "B1", [broker |-> "B1", call |-> callId, ext |-> "wav"],
                                        WorkPath([broker |-> "B1", call |-> callId, ext |-> "wav"]), clock),
               Did("mark", "download_audio", callId))
    /\ UNCHANGED alive

markAudioDownloadFailed(callId) ==
    /\ Mutator(AfterMarkAudioDownloadFailed(state, callId, "error", clock),
               Did("markFailed", "download_audio", callId))
    /\ UNCHANGED alive

markTranscribed(callId) ==
    /\ Mutator(AfterMarkTranscribed(state, callId, TranscriptName("B1", callId),
                                    TranscriptPath("B1", callId), clock),
               Did("mark", "transcribe", callId))
    /\ UNCHANGED alive

markTranscriptionFailed(callId) ==
    /\ Mutator(AfterMarkTranscriptionFailed(state, callId, "error", clock),
               Did("markFailed", "transcribe", callId))
    /\ UNCHANGED alive

markAudioUploaded(callId) ==
    /\ Mutator(AfterMarkAudioUploaded(state, callId, "url", clock),
               Did("mark", "upload_audio", callId))
    /\ UNCHANGED alive

markAudioUploadFailed(callId) ==
    /\ Mutator(AfterMarkAudioUploadFailed(state, callId, "error", clock),
               Did("markFailed", "upload_audio", callId))
    /\ UNCHANGED alive

markAnalyzed(callId, analysisData) ==
    /\ Mutator(AfterMarkAnalyzed(state, callId, analysisData, clock),
               Did("mark", "analyze", callId))
    /\ UNCHANGED alive

markAnalysisFailed(callId) ==
    /\ Mutator(AfterMarkAnalysisFailed(state, callId, "error", clock),
               Did("markFailed", "analyze", callId))
    /\ UNCHANGED alive

\* the call ids that retryFailed(stage) finds in the failure map it clears
FailedBefore(doc, stage) ==
    IF stage \in CallStages THEN Keys(FailureMap(doc, stage)) ELSE <<>>

retryFailed(stage) ==
    /\ Mutator(AfterRetryFailed(state, stage),
               Returned("retryFailed", stage, Null, NoPath, "void", NoPath,
                        FailedBefore(state, stage)))
    /\ UNCHANGED alive

\* a rename that does not notice that the source is missing
RenameNeverThrows(files, src) == FALSE

\* fs.renameSync(src, dst) throws when src does not exist
RenameThrows(files, src) == src \notin files

Renamed(files, src, dst) == (files \ {src}) \cup {dst}

\* this.state.archived_files[category].push(...) throws when the document
\* has no list for the category
PushThrows(doc, category) == category \notin DOMAIN doc.archived_files

AfterArchive(doc, category, callId, filename, destinationFile, now) ==
    [doc EXCEPT !.archived_files[category] =
        Append(@, [call_id |-> callId, original_filename |-> filename,
                   archive_path |-> destinationFile, archived_at |-> now])]

\* archiveFile, given whether mkdirSync / renameSync throws
archiveFileWhen(sourceFile, category, callId, renameThrows) ==
    LET filename == Basename(sourceFile)
        timestamp == DayOf(clock)
        destinationFile == ArchivePath(category, timestamp, filename)
    IN  /\ alive
        /\ clock' = clock + 1
        /\ archiveDirs' = archiveDirs \cup {<<category, timestamp>>}
        /\ UNCHANGED alive
        /\ IF renameThrows
           THEN /\ lastOp' = Returned("archiveFile", category, callId, sourceFile,
                                      "null", NoPath, <<>>)
                /\ UNCHANGED <<state, stateFile, fsys>>
           ELSE /\ fsys' = Renamed(fsys, sourceFile, destinationFile)
                /\ IF PushThrows(state, category)
                   THEN /\ lastOp' = Returned("archiveFile", category, callId, sourceFile,
                                              "null", NoPath, <<>>)
                        /\ UNCHANGED <<state, stateFile>>
                   ELSE /\ saveState(AfterArchive(state, category, callId, filename,
                                                  destinationFile, clock))
                        /\ lastOp' = Returned("archiveFile", category, callId, sourceFile,
                                              "path", destinationFile, <<>>)

archiveFile(sourceFile, category, callId) ==
    archiveFileWhen(sourceFile, category, callId, RenameThrows(fsys, sourceFile))

\* What a kill of the process leaves of the state file: writeFileSync opens
\* the file with truncation and then writes the text, so the file is as it
\* was, empty, or a proper prefix of the text being written (kind "partial":
\* `text` is the text that was being written, not all of which is there).
CrashOutcomes == {"untouched", "truncated", "partial"}

FileAfterCrash(file, doc, now, outcome) ==
    CASE outcome = "untouched" -> file
      [] outcome = "truncated" -> [kind |-> "empty", text |-> JSONStringify(DefaultState(0))]
      [] outcome = "partial" -> [kind |-> "partial", text |-> JSONStringify(Stamped(doc, now))]

\* the process dies inside a mutator
Crash(outcome) ==
    /\ alive
    /\ alive' = FALSE
    /\ stateFile' = FileAfterCrash(stateFile, state, clock, outcome)
    /\ clock' = clock + 1
    /\ lastOp' = Did("crash", Null, Null)
    /\ UNCHANGED <<state, fsys, archiveDirs>>

-----------------------------------------------------------------------------
(* The status tool (status.js), a process of its own on the same state file *)

StatusFlags == {"--retry-failed", "--reset-failed"}

\* the analyze stage is left out
StatusStagesButAnalyze == <<"download_audio", "transcribe", "upload_audio">>

\* the stages whose failures both flags clear, in the order of the forEach
StatusStages == <<"download_audio", "transcribe", "upload_audio", "analyze">>

\* pipelineState.retryFailed(stage) for each stage in turn, each with its
\* saveState()
RECURSIVE RetriedAll(_, _, _)
RetriedAll(doc, stages, now) ==
    IF stages = <<>> THEN doc
    ELSE RetriedAll(Stamped(AfterRetryFailed(doc, Head(stages)), now), Tail(stages), now)

\* node status.js --retry-failed | --reset-failed: a new PipelineState is
\* loaded from the file, the failures of the four stages are cleared and the
\* process exits; a process that holds the document in memory keeps its own
statusRetryFailed(flag) ==
    /\ stateFile' = Written(RetriedAll(LoadState(stateFile, clock), StatusStages, clock), clock)
    /\ clock' = clock + 1
    /\ lastOp' = Did(flag, Null, Null)
    /\ UNCHANGED <<state, fsys, archiveDirs, alive>>

-----------------------------------------------------------------------------
(* The store driven by any sequence of calls *)

\* the stage script is not part of this specification
\* no second process has been started
NoPeer == [alive |-> FALSE, doc |-> DefaultState(0)]

StageIdle ==
    /\ pc = "api"
    /\ queue = <<>>
    /\ processedIds = {}
    /\ analysis = FullAnalysis
    /\ results = <<>>
    /\ uploads = [c \in Calls |-> 0]
    /\ runs = 0

\* no read was asked, and neither the orchestrator nor the download stage is
\* part of this specification
ToolsIdle ==
    /\ readResult = Null
    /\ orchPc = "idle"
    /\ stageIndex = 1
    /\ children = {}
    /\ launched = <<>>
    /\ stageResults = <<>>
    /\ prompts = <<>>
    /\ envFile = "complete"
    /\ runtimes = TRUE
    /\ runReturn = "none"
    /\ dlPc = "down"
    /\ dlRuns = 0
    /\ dlBatch = 1
    /\ dlTask = <<>>
    /\ dlAttempt = <<>>
    /\ audio = <<>>
    /\ dlWaits = <<>>
    /\ successCount = 0
    /\ failedCount = 0
    /\ peer = NoPeer

Init ==
    /\ clock = 0
    /\ state = DefaultState(0)
    /\ stateFile = NoFile
    /\ fsys = {TranscriptPath("B1", c) : c \in Calls}
    /\ archiveDirs = {}
    /\ alive = TRUE
    /\ lastOp = Did("construct", Null, Null)
    /\ StageIdle
    /\ ToolsIdle

\* a call made of the store from outside the stage script
Api == clock < MaxOps /\ UNCHANGED <<stageVars, toolVars>>

Next ==
    \/ Construct /\ UNCHANGED <<stageVars, toolVars>>
    \/ \E r \in DateRanges, n \in CallCounts : Api /\ markDateRangeProcessed(r[1], r[2], n)
    \/ \E c \in Calls : Api /\ markAudioDownloaded(c)
    \/ \E c \in Calls : Api /\ markAudioDownloadFailed(c)
    \/ \E c \in Calls : Api /\ markTranscribed(c)
    \/ \E c \in Calls : Api /\ markTranscriptionFailed(c)
    \/ \E c \in Calls : Api /\ markAudioUploaded(c)
    \/ \E c \in Calls : Api /\ markAudioUploadFailed(c)
    \/ \E c \in Calls, a \in AnalysisResults : Api /\ markAnalyzed(c, a)
    \/ \E c \in Calls : Api /\ markAnalysisFailed(c)
    \/ \E s \in StageNames : Api /\ retryFailed(s)
    \/ \E c \in Calls, cat \in ArchiveCategories :
            Api /\ archiveFile(TranscriptPath("B1", c), cat, c)
    \/ \E cat \in ArchiveCategories : Api /\ archiveFile(MissingPath, cat, Null)
    \/ \E o \in CrashOutcomes : Api /\ Crash(o)
    \/ \E flag \in StatusFlags : Api /\ statusRetryFailed(flag)

Spec == Init /\ [][Next]_vars

-----------------------------------------------------------------------------
(* Claims about the store *)

\* the step taken is a call of the store that read the clock
Stepped == clock' = clock + 1

\* C1: for each per-call stage, after markXFailed(id) followed by markX(id),
\* isX(id) is true and id is no longer among the stage's getFailedItems().
C1_MarkAfterFailedClearsFailure ==
    [][\A s \in CallStages, c \in Calls :
        (lastOp = Did("markFailed", s, c) /\ lastOp' = Did("mark", s, c) /\ Stepped)
            => (IsDone(state', s, c) /\ ~InSeq(FailedItemsOf(state', s), c))]_vars

\* C2: marking a call id completed for a stage when it is already completed
\* for that stage leaves the stage's running total as it was.
C2_RemarkKeepsTotal ==
    [][\A s \in CallStages, c \in Calls :
        (IsDone(state, s, c) /\ lastOp' = Did("mark", s, c) /\ Stepped)
            => Total(state', s) = Total(state, s)]_vars

\* C3: retryFailed(s) empties the failure map of stage s and leaves the
\* failure maps of the other three stages as they were.
C3_RetryFailedScoped ==
    [][\A s \in CallStages :
        (lastOp'.op = "retryFailed" /\ lastOp'.stage = s /\ Stepped)
            => /\ FailureMap(state', s) = <<>>
               /\ \A t \in CallStages \ {s} : FailureMap(state', t) = FailureMap(state, t)]_vars

\* retryFailed('download_audio') has removed a download failure and a
\* transcription failure recorded before it is still there
C3_Witness ==
    /\ lastOp.op = "retryFailed"
    /\ lastOp.stage = "download_audio"
    /\ lastOp.list # <<>>
    /\ FailureMap(state, "download_audio") = <<>>
    /\ FailureMap(state, "transcribe") # <<>>

\* reading every field of two analyze success entries gives the same values
SameSummary(x, y) ==
    \A f \in {"sentiment", "success_rating", "call_disposition"} : Prop(x, f) = Prop(y, f)

SameAnalyzedCalls(m, n) ==
    /\ Len(m) = Len(n)
    /\ \A i \in 1..Len(m) :
        /\ m[i].key = n[i].key
        /\ Prop(m[i].val, "status") = Prop(n[i].val, "status")
        /\ m[i].val.completed_at = n[i].val.completed_at
        /\ SameSummary(m[i].val.analysis_summary, n[i].val.analysis_summary)

\* two documents agree in every field that can be read of them
SameDocument(a, b) ==
    /\ SameAnalyzedCalls(a.stages.analyze.analyzed_calls, b.stages.analyze.analyzed_calls)
    /\ [a EXCEPT !.stages.analyze.analyzed_calls = <<>>]
         = [b EXCEPT !.stages.analyze.analyzed_calls = <<>>]

MutatorReturned ==
    \/ lastOp.op \in {"mark", "markFailed", "markDateRangeProcessed", "retryFailed"}
    \/ lastOp.op = "archiveFile" /\ lastOp.ret = "path"

\* C6: once a mutator has returned, a new PipelineState on the same base
\* directory loads a document that agrees with the in-memory document in
\* every field.
C6_ReloadAgrees ==
    (alive /\ MutatorReturned) => SameDocument(LoadState(stateFile, clock), state)

\* markAnalyzed has stored an analysis without sentiment, which is not in
\* the file, next to an archive record and a date range
C6_Witness ==
    /\ alive
    /\ lastOp.op = "markDateRangeProcessed"
    /\ state.archived_files.transcripts # <<>>
    /\ \E c \in Calls :
        /\ isAnalyzed(state, c)
        /\ "sentiment" \notin DOMAIN Lookup(stateFile.text.stages.analyze.analyzed_calls, c).analysis_summary

\* C7: the state file is never left cut short: it is absent or holds a
\* complete document.
C7_StateFileNeverPartial == stateFile.kind \in {"absent", "json"}

ArchiveRecordOf(op, now) ==
    [call_id |-> op.callId, original_filename |-> Basename(op.source),
     archive_path |-> op.path, archived_at |-> now]

\* C8: archiveFile is all-or-nothing: a path returned means the file is moved
\* there and one record appended and persisted; null returned means the source
\* is where it was and archived_files is unchanged in memory and in the file.
C8_ArchiveAllOrNothing ==
    [][(lastOp'.op = "archiveFile" /\ Stepped) =>
        IF lastOp'.ret = "path"
        THEN /\ lastOp'.source \notin fsys'
             /\ lastOp'.path \in fsys'
             /\ state'.archived_files =
                    [state.archived_files EXCEPT ![lastOp'.stage] =
                        Append(@, ArchiveRecordOf(lastOp', clock))]
             /\ stateFile'.kind = "json"
             /\ stateFile'.text.archived_files = state'.archived_files
        ELSE /\ (lastOp'.source \in fsys) => (lastOp'.source \in fsys')
             /\ state'.archived_files = state.archived_files
             /\ stateFile' = stateFile]_vars

\* C9: archiveFile of a source path that does not exist returns null and
\* leaves archived_files and every stage record unchanged.
C9_ArchiveMissingSource ==
    [][(lastOp'.op = "archiveFile" /\ Stepped /\ lastOp'.source \notin fsys) =>
        /\ lastOp'.ret = "null"
        /\ state'.archived_files = state.archived_files
        /\ state'.stages = state.stages
        /\ stateFile' = stateFile]_vars

\* archiveFile of a path where nothing is has returned null, after an
\* archive record and a stage record were made
C9_Witness ==
    /\ lastOp.op = "archiveFile"
    /\ lastOp.source \notin fsys
    /\ lastOp.ret = "null"
    /\ state.archived_files.transcripts # <<>>
    /\ \E c \in Calls : isTranscribed(state, c)

ZeroValue(doc) ==
    /\ doc.stages.get_call_ids.total_calls_extracted = 0
    /\ doc.stages.get_call_ids.processed_date_ranges = <<>>
    /\ \A s \in CallStages :
        /\ Total(doc, s) = 0
        /\ doc.stages[s][SuccessField(s)] = <<>>
        /\ FailureMap(doc, s) = <<>>
    /\ \A cat \in Categories : doc.archived_files[cat] = <<>>

\* C10: constructing a PipelineState when the state file is absent or does
\* not parse yields the zero-value document.
C10_FreshOnAbsentOrCorrupt ==
    [][(~alive /\ alive' /\ stateFile.kind # "json") => ZeroValue(state')]_vars

\* a PipelineState was constructed on a file that a crash cut short while
\* the document had progress in it
C10_Witness ==
    /\ alive
    /\ lastOp.op = "construct"
    /\ stateFile.kind = "partial"
    /\ ~ZeroValue(stateFile.text)
    /\ ZeroValue(state)

\* C11: isAudioDownloaded / isTranscribed / isAudioUploaded / isAnalyzed of
\* an id is true exactly when the stage's mark of that id has been called:
\* no call id is done in the zero-value document, the mark of (stage, id)
\* makes it done, and no other call of the store makes it done or undoes it.
C11_DoneIffMarked ==
    /\ \A s \in CallStages, c \in Calls : ~IsDone(state, s, c)
    /\ [][lastOp'.op # "construct" =>
            \A s \in CallStages, c \in Calls :
                IsDone(state', s, c) <=>
                    (IsDone(state, s, c) \/ (lastOp' = Did("mark", s, c) /\ Stepped))]_vars

\* A was marked transcribed, then failed for the same stage, then the
\* stage's failures were cleared: A is still transcribed, and nothing else is
C11_Witness ==
    /\ lastOp.op = "retryFailed"
    /\ lastOp.stage = "transcribe"
    /\ lastOp.list = <<"A">>
    /\ \A s \in CallStages, c \in Calls : IsDone(state, s, c) <=> (s = "transcribe" /\ c = "A")

RECURSIVE SumCallCounts(_)
SumCallCounts(ranges) ==
    IF ranges = <<>> THEN 0 ELSE Head(ranges).call_count + SumCallCounts(Tail(ranges))

\* C12: total_calls_extracted is always the sum of call_count over
\* processed_date_ranges, and markDateRangeProcessed(start, end, count)
\* appends exactly one record of that range and adds count to the total.
C12_TotalIsSumOfCounts ==
    /\ [](state.stages.get_call_ids.total_calls_extracted
            = SumCallCounts(state.stages.get_call_ids.processed_date_ranges))
    /\ [][(lastOp'.op = "markDateRangeProcessed" /\ Stepped) =>
            LET before == state.stages.get_call_ids
                after == state'.stages.get_call_ids
                n == Len(before.processed_date_ranges)
            IN  /\ Len(after.processed_date_ranges) = n + 1
                /\ SubSeq(after.processed_date_ranges, 1, n) = before.processed_date_ranges
                /\ after.processed_date_ranges[n + 1].start_date = lastOp'.list[1]
                /\ after.processed_date_ranges[n + 1].end_date = lastOp'.list[2]
                /\ after.processed_date_ranges[n + 1].call_count = lastOp'.count
                /\ after.total_calls_extracted = before.total_calls_extracted + lastOp'.count]_vars

\* from empty, markDateRangeProcessed('2025-01-01', '2025-01-02', 5) has given
\* a total of 5
C12_Witness ==
    /\ lastOp = DidRange("2025-01-01", "2025-01-02", 5)
    /\ Len(state.stages.get_call_ids.processed_date_ranges) = 1
    /\ state.stages.get_call_ids.total_calls_extracted = 5

\* the ranges isDateRangeProcessed is asked about: those that are marked, and
\* one that overlaps both without being either
QueryRanges == DateRanges \cup {<<"2025-01-02", "2025-01-04">>}

\* C13: isDateRangeProcessed(start, end) is true exactly when
\* markDateRangeProcessed has been called with the same start and the same
\* end: a call with another range does not make it true.
C13_ExactRangeMatch ==
    /\ \A r \in QueryRanges : ~isDateRangeProcessed(state, r[1], r[2])
    /\ [][lastOp'.op # "construct" =>
            \A r \in QueryRanges :
                isDateRangeProcessed(state', r[1], r[2]) <=>
                    \/ isDateRangeProcessed(state, r[1], r[2])
                    \/ (lastOp'.op = "markDateRangeProcessed" /\ lastOp'.list = r /\ Stepped)]_vars

\* 2025-01-01..2025-01-03 is processed; the range 2025-01-01..2025-01-02 it
\* contains and the range 2025-01-02..2025-01-04 that overlaps it are not
C13_Witness ==
    /\ lastOp.op = "markDateRangeProcessed"
    /\ isDateRangeProcessed(state, "2025-01-01", "2025-01-03")
    /\ ~isDateRangeProcessed(state, "2025-01-01", "2025-01-02")
    /\ ~isDateRangeProcessed(state, "2025-01-02", "2025-01-04")

\* C16: the status tool run with --retry-failed or --reset-failed leaves the
\* four failure maps of the persisted document empty, so that getFailedItems()
\* gives four empty lists, and leaves every success map, every running total,
\* the processed date ranges and the archive lists as they were.
C16_StatusRetryClearsFailures ==
    [][(lastOp'.op \in StatusFlags /\ Stepped) =>
        LET before == LoadState(stateFile, clock)
            after == LoadState(stateFile', clock')
        IN  /\ ParseableFile(stateFile')
            /\ \A s \in CallStages :
                    /\ FailureMap(after, s) = <<>>
                    /\ FailedItemsOf(after, s) = <<>>
                    /\ after.stages[s][SuccessField(s)] = before.stages[s][SuccessField(s)]
                    /\ Total(after, s) = Total(before, s)
            /\ after.stages.get_call_ids.processed_date_ranges
                    = before.stages.get_call_ids.processed_date_ranges
            /\ after.stages.get_call_ids.total_calls_extracted
                    = before.stages.get_call_ids.total_calls_extracted
            /\ after.archived_files = before.archived_files]_vars

\* --retry-failed was run on a file with a download of A and a failed
\* transcription of A (which the running process still has in memory): the
\* file has the download and no failure
C16_Witness ==
    /\ lastOp.op = "--retry-failed"
    /\ HasKey(state.stages.transcribe.failed_transcriptions, "A")
    /\ stateFile.kind = "json"
    /\ isAudioDownloaded(stateFile.text, "A")
    /\ stateFile.text.stages.download_audio.total_downloaded = 1
    /\ getFailedItems(stateFile.text) =
            [failed_downloads |-> <<>>, failed_transcriptions |-> <<>>,
             failed_uploads |-> <<>>, failed_analyses |-> <<>>]

\* the document without the failure map of a stage and without last_updated
WithoutFailures(doc, stage) ==
    [doc EXCEPT !.stages[stage][FailureField(stage)] = <<>>, !.last_updated = 0]

\* C20: mark<Stage>Failed(id, err) sets the entry of id in the stage's failure
\* map and changes nothing else but last_updated: the stage's success map and
\* total, the other stages, the date ranges and the archive lists are as they
\* were, and an id that was done for the stage is still done.
C20_MarkFailedFrame ==
    [][\A s \in CallStages, c \in Calls :
        (lastOp' = Did("markFailed", s, c) /\ Stepped) =>
            /\ WithoutFailures(state', s) = WithoutFailures(state, s)
            /\ KeySet(FailureMap(state', s)) = KeySet(FailureMap(state, s)) \cup {c}
            /\ \A k \in KeySet(FailureMap(state, s)) \ {c} :
                    Lookup(FailureMap(state', s), k) = Lookup(FailureMap(state, s), k)
            /\ Lookup(FailureMap(state', s), c) = [error |-> "error", failed_at |-> clock]
            /\ IsDone(state, s, c) => IsDone(state', s, c)]_vars

\* markAudioDownloadFailed('A') came after markAudioDownloaded('A') and a
\* record of another stage: A is downloaded and failed at once
C20_Witness ==
    /\ lastOp = Did("markFailed", "download_audio", "A")
    /\ isAudioDownloaded(state, "A")
    /\ HasKey(state.stages.download_audio.failed_downloads, "A")
    /\ state.stages.download_audio.total_downloaded = 1
    /\ isTranscribed(state, "B")

\* the number of ids with a completed entry in the success map of a stage
CompletedCount(doc, stage) == Cardinality({c \in Calls : IsDone(doc, stage, c)})

\* C28: starting from the zero-value document, the running total of every
\* per-call stage is at least the number of completed entries of the stage's
\* success map, and no call of the store (the marks, mark<Stage>Failed and
\* retryFailed included) makes a running total smaller.
C28_TotalsOnlyGrow ==
    /\ [](\A s \in CallStages : Total(state, s) >= CompletedCount(state, s))
    /\ [][lastOp'.op # "construct" =>
            \A s \in CallStages : Total(state', s) >= Total(state, s)]_vars

\* A was marked uploaded twice and then failed for the stage: the total counts
\* both marks while the success map holds one completed entry
C28_Witness ==
    /\ lastOp = Did("markFailed", "upload_audio", "A")
    /\ Total(state, "upload_audio") = 2
    /\ CompletedCount(state, "upload_audio") = 1

-----------------------------------------------------------------------------
(* The readiness filter, asked of documents with every combination of      *)
(* completed stages for three calls                                         *)

ReadyOrder == <<"A", "B", "C">>

ReadyCalls == {ReadyOrder[i] : i \in 1..Len(ReadyOrder)}

\* the orders in which some of the calls can have been marked downloaded
DownloadOrders ==
    {q \in UNION {[1..n -> ReadyCalls] : n \in 0..Len(ReadyOrder)} :
        \A i, j \in 1..Len(q) : i # j => q[i] # q[j]}

\* the document after the mark of `stage` for each call of q, in that order
RECURSIVE MarkedAll(_, _, _)
MarkedAll(doc, stage, q) ==
    IF q = <<>> THEN doc
    ELSE LET c == Head(q)
             next ==
                CASE stage = "download_audio" ->
                        AfterMarkAudioDownloaded(doc, c, "B1",
                            [broker |-> "B1", call |-> c, ext |-> "wav"],
                            WorkPath([broker |-> "B1", call |-> c, ext |-> "wav"]), 0)
                  [] stage = "transcribe" ->
                        AfterMarkTranscribed(doc, c, TranscriptName("B1", c),
                                             TranscriptPath("B1", c), 0)
                  [] stage = "upload_audio" -> AfterMarkAudioUploaded(doc, c, "url", 0)
                  [] stage = "analyze" -> AfterMarkAnalyzed(doc, c, FullAnalysis, 0)
         IN  MarkedAll(Stamped(next, 0), stage, Tail(q))

InOrder(S) ==
    LET Member(c) == c \in S IN SelectSeq(ReadyOrder, Member)

ReadyDoc(dl, ts, us, as) ==
    MarkedAll(MarkedAll(MarkedAll(MarkedAll(DefaultState(0),
        "download_audio", dl), "transcribe", InOrder(ts)),
        "upload_audio", InOrder(us)), "analyze", InOrder(as))

InitReady ==
    /\ clock = 0
    /\ \E dl \in DownloadOrders, ts \in SUBSET ReadyCalls,
          us \in SUBSET ReadyCalls, as \in SUBSET ReadyCalls :
            /\ state = ReadyDoc(dl, ts, us, as)
            /\ stateFile = Written(ReadyDoc(dl, ts, us, as), 0)
    /\ fsys = {}
    /\ archiveDirs = {}
    /\ alive = TRUE
    /\ lastOp = Did("construct", Null, Null)
    /\ StageIdle
    /\ ToolsIdle

\* pipelineState.getCallsForProcessing(stage)
AskCallsForProcessing(stage) ==
    /\ alive
    /\ lastOp' = Returned("getCallsForProcessing", stage, Null, NoPath, "list", NoPath,
                          getCallsForProcessing(state, stage))
    /\ UNCHANGED <<state, stateFile, fsys, archiveDirs, clock, alive>>
    /\ UNCHANGED <<stageVars, toolVars>>

NextReady == \E stage \in StageNames : AskCallsForProcessing(stage)

SpecReady == InitReady /\ [][NextReady]_vars

ToSet(q) == {q[i] : i \in 1..Len(q)}

NoDuplicates(q) == \A i, j \in 1..Len(q) : i # j => q[i] # q[j]

ReadyFor(doc, stage) ==
    CASE stage = "transcribe" ->
            {c \in ReadyCalls : isAudioDownloaded(doc, c) /\ ~isTranscribed(doc, c)}
      [] stage = "upload_audio" ->
            {c \in ReadyCalls : isAudioDownloaded(doc, c) /\ ~isAudioUploaded(doc, c)}
      [] stage = "analyze" ->
            {c \in ReadyCalls : /\ isAudioDownloaded(doc, c)
                                /\ isTranscribed(doc, c)
                                /\ isAudioUploaded(doc, c)
                                /\ ~isAnalyzed(doc, c)}

\* C4: getCallsForProcessing('transcribe' | 'upload_audio' | 'analyze')
\* returns exactly the downloaded calls that are not transcribed, not
\* uploaded, or transcribed and uploaded and not analyzed.
C4_ReadinessFilter ==
    (lastOp.op = "getCallsForProcessing" /\ lastOp.stage \in {"transcribe", "upload_audio", "analyze"})
        => /\ NoDuplicates(lastOp.list)
           /\ ToSet(lastOp.list) = ReadyFor(state, lastOp.stage)

\* A downloaded, transcribed and uploaded, B downloaded and transcribed,
\* C downloaded only
ExampleDoc(doc) ==
    /\ Keys(doc.stages.download_audio.downloaded_files) = <<"A", "B", "C">>
    /\ KeySet(doc.stages.transcribe.transcribed_files) = {"A", "B"}
    /\ KeySet(doc.stages.upload_audio.uploaded_files) = {"A"}
    /\ KeySet(doc.stages.analyze.analyzed_calls) = {}

\* in the example document, 'analyze' gives [A] where 'upload_audio' would
\* give [B, C]
C4_Witness ==
    /\ ExampleDoc(state)
    /\ lastOp.op = "getCallsForProcessing"
    /\ lastOp.stage = "analyze"
    /\ lastOp.list = <<"A">>
    /\ getCallsForProcessing(state, "upload_audio") = <<"B", "C">>

-----------------------------------------------------------------------------
(* The read operations, asked of documents with date ranges, downloads,    *)
(* repeated analyses, failures and archived files                          *)

CountSeqs == UNION {[1..n -> CallCounts] : n \in 0..MaxRanges}

AnalyzedSeqs == UNION {[1..n -> Calls] : n \in 0..MaxAnalyzed}

QueryDownloads == {q \in DownloadOrders : \A i \in 1..Len(q) : q[i] \in Calls}

QueryFailures == SUBSET {"download_audio", "analyze"}

\* the date range that is marked with a call count
RangeOf(callCount) ==
    IF callCount = 5 THEN <<"2025-01-01", "2025-01-02">> ELSE <<"2025-01-01", "2025-01-03">>

\* the document after markDateRangeProcessed for each count of q
RECURSIVE Extracted(_, _)
Extracted(doc, q) ==
    IF q = <<>> THEN doc
    ELSE Extracted(Stamped(AfterMarkDateRangeProcessed(doc, RangeOf(Head(q))[1],
                                RangeOf(Head(q))[2], Head(q), 0), 0), Tail(q))

\* the document after call B has failed in each stage of fs
FailedIn(doc, fs) ==
    LET d1 == IF "download_audio" \in fs
              THEN Stamped(AfterMarkAudioDownloadFailed(doc, "B", "error", 0), 0) ELSE doc
    IN  IF "analyze" \in fs
        THEN Stamped(AfterMarkAnalysisFailed(d1, "B", "error", 0), 0) ELSE d1

\* the document after n transcripts of call A were archived
ArchivedTimes(doc, n) ==
    IF n = 0 THEN doc
    ELSE Stamped(AfterArchive(doc, "transcripts", "A", TranscriptName("B1", "A"),
                              ArchivePath("transcripts", 0, TranscriptName("B1", "A")), 0), 0)

QueryDoc(cq, dl, aq, fs, n) ==
    ArchivedTimes(FailedIn(MarkedAll(MarkedAll(Extracted(DefaultState(0), cq),
        "download_audio", dl), "analyze", aq), fs), n)

InitQuery ==
    /\ clock = 0
    /\ \E cq \in CountSeqs, dl \in QueryDownloads, aq \in AnalyzedSeqs,
          fs \in QueryFailures, n \in 0..1 :
            /\ state = QueryDoc(cq, dl, aq, fs, n)
            /\ stateFile = Written(QueryDoc(cq, dl, aq, fs, n), 0)
    /\ fsys = {}
    /\ archiveDirs = {}
    /\ alive = TRUE
    /\ lastOp = Did("construct", Null, Null)
    /\ StageIdle
    /\ ToolsIdle

\* the read also saves the document
ReadSaving(opName, stage, callId, value) ==
    /\ alive
    /\ lastOp' = Did(opName, stage, callId)
    /\ readResult' = value
    /\ state' = Stamped(state, clock + 1)
    /\ stateFile' = Written(state, clock + 1)
    /\ UNCHANGED <<fsys, archiveDirs, clock, alive>>
    /\ UNCHANGED <<stageVars, orchVars, downloadVars, peerVars>>

\* a read operation: it returns a value computed from this.state and
\* assigns nothing
Read(opName, stage, callId, value) ==
    /\ alive
    /\ lastOp' = Did(opName, stage, callId)
    /\ readResult' = value
    /\ UNCHANGED <<state, stateFile, fsys, archiveDirs, clock, alive>>
    /\ UNCHANGED <<stageVars, orchVars, downloadVars, peerVars>>

AskDateRangeProcessed(startDate, endDate) ==
    /\ Read("isDateRangeProcessed", "get_call_ids", Null,
            isDateRangeProcessed(state, startDate, endDate))

AskAudioDownloaded(callId) ==
    /\ Read("isAudioDownloaded", "download_audio", callId, isAudioDownloaded(state, callId))

AskTranscribed(callId) ==
    /\ Read("isTranscribed", "transcribe", callId, isTranscribed(state, callId))

AskAudioUploaded(callId) ==
    /\ Read("isAudioUploaded", "upload_audio", callId, isAudioUploaded(state, callId))

AskAnalyzed(callId) ==
    /\ Read("isAnalyzed", "analyze", callId, isAnalyzed(state, callId))

AskProcessingStats ==
    /\ Read("getProcessingStats", Null, Null, getProcessingStats(state))

AskFailedItems ==
    /\ Read("getFailedItems", Null, Null, getFailedItems(state))

\* one read is asked of each document: a read changes nothing that a second
\* read could see
FirstCall == lastOp.op = "construct"

NextQuery ==
    \/ \E r \in QueryRanges : FirstCall /\ AskDateRangeProcessed(r[1], r[2])
    \/ \E c \in Calls : FirstCall /\ AskAudioDownloaded(c)
    \/ \E c \in Calls : FirstCall /\ AskTranscribed(c)
    \/ \E c \in Calls : FirstCall /\ AskAudioUploaded(c)
    \/ \E c \in Calls : FirstCall /\ AskAnalyzed(c)
    \/ FirstCall /\ AskProcessingStats
    \/ FirstCall /\ AskFailedItems
    \/ \E stage \in StageNames : FirstCall /\ AskCallsForProcessing(stage)

SpecQuery == InitQuery /\ [][NextQuery]_vars

\* C14: getProcessingStats() gives completion_rate "0%" when
\* total_calls_extracted is 0, and otherwise "w.d%" where w.d is the numeral
\* with one decimal nearest to 100 * analyzed / total_calls_extracted.
C14_CompletionRate ==
    lastOp.op = "getProcessingStats" =>
        LET t == state.stages.get_call_ids.total_calls_extracted
            a == state.stages.analyze.total_analyzed
        IN  IF t = 0
            THEN readResult.completion_rate = "0%"
            ELSE \E w \in 0..(100 * a), d \in 0..9 :
                    /\ readResult.completion_rate = ToString(w) \o "." \o ToString(d) \o "%"
                    /\ 2 * (t * (10 * w + d) - 1000 * a) <= t
                    /\ 2 * (1000 * a - t * (10 * w + d)) <= t

\* with 10 calls extracted and 3 analyzed the rate is "30.0%"
C14_Witness ==
    /\ lastOp.op = "getProcessingStats"
    /\ readResult.total_calls_extracted = 10
    /\ readResult.analyzed = 3
    /\ readResult.completion_rate = "30.0%"

ReadOps ==
    {"isDateRangeProcessed", "isAudioDownloaded", "isTranscribed", "isAudioUploaded",
     "isAnalyzed", "getProcessingStats", "getFailedItems", "getCallsForProcessing"}

\* C15: the eight read operations leave the in-memory document and the
\* persisted state file unchanged.
C15_ReadsChangeNothing ==
    [][lastOp'.op \in ReadOps => (state' = state /\ stateFile' = stateFile)]_vars

\* getFailedItems() has returned the failed analysis of B from a document
\* that also has an analysis of A and a date range, and the file is as
\* saveState() wrote the document
C15_Witness ==
    /\ lastOp.op = "getFailedItems"
    /\ readResult.failed_analyses = <<"B">>
    /\ isAnalyzed(state, "A")
    /\ state.stages.get_call_ids.processed_date_ranges # <<>>
    /\ stateFile = Written(state, 0)

-----------------------------------------------------------------------------
(* The analyze stage script (stages/5_analyze): runs of main(), each in a   *)
(* process of its own that can be killed at any point                       *)

\* output/transcripts as readdirSync lists it: two transcripts carry call
\* id A (brokers B1 and B2)
TranscriptFiles ==
    << [filepath |-> TranscriptPath("B1", "A"), brokerId |-> "B1", callId |-> "A"],
       [filepath |-> TranscriptPath("B1", "B"), brokerId |-> "B1", callId |-> "B"],
       [filepath |-> TranscriptPath("B2", "A"), brokerId |-> "B2", callId |-> "A"] >>

\* filepath.replace('.txt', '.json')
JsonPath(filepath) == [filepath EXCEPT !.name.ext = "json"]

getTranscriptFiles(files) ==
    LET Listed(f) == f.filepath \in files IN SelectSeq(TranscriptFiles, Listed)

\* main(): transcriptFiles.filter(file => !pipelineState.isAnalyzed(file.callId))
unprocessedFiles(doc, files) ==
    LET NotAnalyzed(f) == ~isAnalyzed(doc, f.callId)
    IN  SelectSeq(getTranscriptFiles(files), NotAnalyzed)

\* loadProcessedCallIds(): the script writes only the header line of
\* processed_analyses.csv, so the file never lists a call id
loadProcessedCallIds == {}

InitAnalyze ==
    /\ clock = 0
    /\ state = DefaultState(0)
    /\ stateFile = NoFile
    /\ fsys = {TranscriptFiles[i].filepath : i \in 1..Len(TranscriptFiles)}
                \cup {JsonPath(TranscriptPath("B1", "B"))}
    /\ archiveDirs = {}
    /\ alive = FALSE
    /\ lastOp = Did("exit", Null, Null)
    /\ pc = "down"
    /\ queue = <<>>
    /\ processedIds = {}
    /\ analysis = FullAnalysis
    /\ results = <<>>
    /\ uploads = [c \in Calls |-> 0]
    /\ runs = 0
    /\ ToolsIdle

Result(file, success, skipped) ==
    [callId |-> file.callId, success |-> success, skipped |-> skipped]

\* the script is started: the module constructs its PipelineState and main()
\* runs up to its loop
StartStage ==
    /\ pc = "down"
    /\ runs < MaxRuns
    /\ runs' = runs + 1
    /\ Construct
    /\ processedIds' = loadProcessedCallIds
    /\ queue' = unprocessedFiles(state', fsys)
    /\ results' = <<>>
    /\ pc' = "loop"
    /\ UNCHANGED <<analysis, uploads>>
    /\ UNCHANGED toolVars

\* main(): the loop is over (or there was nothing to process) and the
\* process exits
FinishStage ==
    /\ pc = "loop"
    /\ queue = <<>>
    /\ pc' = "down"
    /\ alive' = FALSE
    /\ lastOp' = Did("exit", Null, Null)
    /\ UNCHANGED <<state, stateFile, fsys, archiveDirs, clock>>
    /\ UNCHANGED <<queue, processedIds, analysis, results, uploads, runs>>
    /\ UNCHANGED toolVars

\* processTranscriptFile: if (processedIds.has(callId)) return skipped
SkipProcessed ==
    /\ pc = "loop"
    /\ queue # <<>>
    /\ Head(queue).callId \in processedIds
    /\ results' = Append(results, Result(Head(queue), TRUE, TRUE))
    /\ queue' = Tail(queue)
    /\ UNCHANGED storeVars
    /\ UNCHANGED <<pc, processedIds, analysis, uploads, runs>>
    /\ UNCHANGED toolVars

\* a catch that returns the failure result without recording the failure
FailedTranscriptUnrecorded ==
    /\ results' = Append(results, Result(Head(queue), FALSE, FALSE))
    /\ queue' = Tail(queue)
    /\ pc' = "loop"
    /\ UNCHANGED storeVars
    /\ UNCHANGED <<processedIds, analysis, uploads, runs>>
    /\ UNCHANGED toolVars

\* processTranscriptFile's catch: markAnalysisFailed and a failure result
FailedTranscript ==
    /\ markAnalysisFailed(Head(queue).callId)
    /\ results' = Append(results, Result(Head(queue), FALSE, FALSE))
    /\ queue' = Tail(queue)
    /\ pc' = "loop"
    /\ UNCHANGED <<processedIds, analysis, uploads, runs>>
    /\ UNCHANGED toolVars

\* processTranscriptFile: the transcript is read and analyzed
AnalyzeTranscript(a) ==
    /\ pc = "loop"
    /\ queue # <<>>
    /\ Head(queue).callId \notin processedIds
    /\ analysis' = a
    /\ pc' = "upload"
    /\ UNCHANGED storeVars
    /\ UNCHANGED <<queue, processedIds, results, uploads, runs>>
    /\ UNCHANGED toolVars

\* processTranscriptFile: reading the transcript or analyzeTranscript throws
AnalyzeThrows ==
    /\ pc = "loop"
    /\ queue # <<>>
    /\ Head(queue).callId \notin processedIds
    /\ FailedTranscript

\* uploadAnalysis: the backend takes the analysis
UploadAnalysis ==
    /\ pc = "upload"
    /\ uploads' = [uploads EXCEPT ![Head(queue).callId] = @ + 1]
    /\ pc' = "mark"
    /\ UNCHANGED storeVars
    /\ UNCHANGED <<queue, processedIds, analysis, results, runs>>
    /\ UNCHANGED toolVars

\* uploadAnalysis throws without the backend having taken the analysis
UploadThrows ==
    /\ pc = "upload"
    /\ FailedTranscript

\* a processTranscriptFile that goes on to the archive without markAnalyzed
MarkAnalyzedSkipped ==
    /\ pc = "mark"
    /\ pc' = "archive"
    /\ UNCHANGED storeVars
    /\ UNCHANGED <<queue, processedIds, analysis, results, uploads, runs>>
    /\ UNCHANGED toolVars

\* processTranscriptFile: pipelineState.markAnalyzed(callId, analysis)
MarkAnalyzed ==
    /\ pc = "mark"
    /\ markAnalyzed(Head(queue).callId, analysis)
    /\ pc' = "archive"
    /\ UNCHANGED <<queue, processedIds, analysis, results, uploads, runs>>
    /\ UNCHANGED toolVars

\* a processTranscriptFile in which a failed archive is an error of the
\* transcript
ArchiveTranscriptStrict(renameFails) ==
    /\ pc = "archive"
    /\ IF renameFails
       THEN FailedTranscript
       ELSE /\ archiveFile(Head(queue).filepath, "transcripts", Head(queue).callId)
            /\ pc' = "archive_json"
            /\ UNCHANGED <<queue, processedIds, analysis, results, uploads, runs>>
            /\ UNCHANGED toolVars

\* processTranscriptFile: pipelineState.archiveFile(filepath, 'transcripts', callId);
\* renameFails: mkdirSync or renameSync throws although the transcript is
\* there (no permission, archive on another device, disk full)
ArchiveTranscript(renameFails) ==
    /\ pc = "archive"
    /\ archiveFileWhen(Head(queue).filepath, "transcripts", Head(queue).callId,
                       renameFails \/ RenameThrows(fsys, Head(queue).filepath))
    /\ pc' = "archive_json"
    /\ UNCHANGED <<queue, processedIds, analysis, results, uploads, runs>>
    /\ UNCHANGED toolVars

\* processTranscriptFile: the JSON file beside the transcript is archived if
\* there is one, and the file counts as a success of the run;
\* main(): processedIds.add(result.callId)
ArchiveJsonAndReturn ==
    /\ pc = "archive_json"
    /\ IF JsonPath(Head(queue).filepath) \in fsys
       THEN archiveFile(JsonPath(Head(queue).filepath), "transcripts", Head(queue).callId)
       ELSE UNCHANGED storeVars
    /\ results' = Append(results, Result(Head(queue), TRUE, FALSE))
    /\ processedIds' = processedIds \cup {Head(queue).callId}
    /\ queue' = Tail(queue)
    /\ pc' = "loop"
    /\ UNCHANGED <<analysis, uploads, runs>>
    /\ UNCHANGED toolVars

\* the process is killed; a kill inside the saveState of markAnalyzed,
\* markAnalysisFailed or archiveFile can leave the state file cut short
KillStage(outcome) ==
    /\ pc # "down"
    /\ outcome # "untouched" => queue # <<>>
    /\ Crash(outcome)
    /\ pc' = "down"
    /\ UNCHANGED <<queue, processedIds, analysis, results, uploads, runs>>
    /\ UNCHANGED toolVars

\* the process is killed inside archiveFile, after renameSync and before
\* saveState: the transcript is in the archive and no record of it is saved
KillWhileArchiving ==
    /\ pc = "archive"
    /\ alive
    /\ ~RenameThrows(fsys, Head(queue).filepath)
    /\ fsys' = Renamed(fsys, Head(queue).filepath,
                       ArchivePath("transcripts", DayOf(clock), Basename(Head(queue).filepath)))
    /\ archiveDirs' = archiveDirs \cup {<<"transcripts", DayOf(clock)>>}
    /\ alive' = FALSE
    /\ clock' = clock + 1
    /\ lastOp' = Did("crash", Null, Null)
    /\ pc' = "down"
    /\ UNCHANGED <<state, stateFile>>
    /\ UNCHANGED <<queue, processedIds, analysis, results, uploads, runs>>
    /\ UNCHANGED toolVars

NextAnalyze ==
    \/ StartStage
    \/ FinishStage
    \/ SkipProcessed
    \/ \E a \in AnalysisResults : AnalyzeTranscript(a)
    \/ AnalyzeThrows
    \/ UploadAnalysis
    \/ UploadThrows
    \/ MarkAnalyzed
    \/ \E f \in BOOLEAN : ArchiveTranscript(f)
    \/ ArchiveJsonAndReturn
    \/ \E o \in CrashOutcomes : KillStage(o)
    \/ KillWhileArchiving

SpecAnalyze == InitAnalyze /\ [][NextAnalyze]_vars

\* C5: the analysis of a call id is uploaded to the backend at most once,
\* over any number of runs, interrupted or not, and with two transcripts of
\* the same call id.
C5_UploadedAtMostOnce == \A c \in Calls : uploads[c] <= 1

\* the step in which processTranscriptFile returns a failure result
ReturnsFailure ==
    /\ pc \in {"loop", "upload"}
    /\ queue # <<>>
    /\ results' = Append(results, Result(Head(queue), FALSE, FALSE))

C22_ArchiveFailureIsNotAFailure ==
    /\ [][(pc = "archive" /\ pc' # "archive" /\ lastOp'.op # "crash") =>
            /\ lastOp'.op = "archiveFile"
            /\ lastOp'.ret = "null" => (state' = state /\ stateFile' = stateFile)
            /\ isAnalyzed(state', Head(queue).callId)
            /\ FailureMap(state', "analyze") = FailureMap(state, "analyze")
            /\ pc' = "archive_json"
            /\ alive']_vars
    /\ [][(pc = "archive_json" /\ Head(queue).filepath \in fsys /\ lastOp'.op # "crash") =>
            /\ results' = Append(results, Result(Head(queue), TRUE, FALSE))
            /\ Head(queue).callId \in processedIds'
            /\ isAnalyzed(state', Head(queue).callId)
            /\ FailureMap(state', "analyze") = FailureMap(state, "analyze")
            /\ queue' = Tail(queue)
            /\ pc' = "loop"]_vars

\* the archive of B1_A.txt failed: the transcript is still in
\* output/transcripts, A is analyzed and not failed, the run counted it as a
\* success and went on to B
C22_Witness ==
    /\ results = << [callId |-> "A", success |-> TRUE, skipped |-> FALSE],
                    [callId |-> "B", success |-> TRUE, skipped |-> FALSE] >>
    /\ TranscriptPath("B1", "A") \in fsys
    /\ isAnalyzed(state, "A")
    /\ ~HasKey(FailureMap(state, "analyze"), "A")
    /\ state.archived_files.transcripts # <<>>

\* C26: a call id that is analyzed is also transcribed and uploaded, in
\* every state reached by runs of the analyze stage.
C26_AnalyzedOnlyWhenReady ==
    \A c \in Calls : isAnalyzed(state, c) => (isTranscribed(state, c) /\ isAudioUploaded(state, c))

ArchivedAreAnalyzed(doc) ==
    \A i \in 1..Len(doc.archived_files.transcripts) :
        isAnalyzed(doc, doc.archived_files.transcripts[i].call_id)

\* C27: in every state reached by runs of the analyze stage, killed runs
\* included, every record of archived_files.transcripts names a call id with
\* a completed entry in analyzed_calls, in the document in memory and in a
\* readable state file.
C27_ArchivedOnlyAfterAnalyzed ==
    /\ ArchivedAreAnalyzed(state)
    /\ stateFile.kind = "json" => ArchivedAreAnalyzed(stateFile.text)

\* a second run, after a killed one, has archive records of A and of B
C27_Witness ==
    /\ runs = 2
    /\ alive
    /\ lastOp.op = "archiveFile"
    /\ \E i, j \in 1..Len(state.archived_files.transcripts) :
            /\ state.archived_files.transcripts[i].call_id = "A"
            /\ state.archived_files.transcripts[j].call_id = "B"
    /\ stateFile.text.archived_files = state.archived_files

-----------------------------------------------------------------------------
(* The orchestrator (run_pipeline.js): Pipeline.run() launches the stage    *)
(* scripts as child processes                                               *)

STAGES == <<"1_get_ids", "2_download_recordings", "3_transcribe", "4_upload_audio", "5_analyze">>

\* what spawn() does: the child runs, the child could not be started (an
\* 'error' event follows), or spawn throws
SpawnOutcomes == {"started", "failed", "threw"}

\* the code the 'close' event carries
ExitCodes == {0, 1}

\* what the operator types at the prompt
Answers == {"y", "Y", "n", "N", "", "yes", " y"}

toLowerCase(str) ==
    CASE str = "Y" -> "y"
      [] str = "N" -> "n"
      [] OTHER -> str

\* every answer but a no counts as a yes
promptContinueUnlessNo(answer) == toLowerCase(answer) # "n"

\* promptContinue(): resolve(answer.toLowerCase() === 'y')
promptContinue(answer) == toLowerCase(answer) = "y"

\* the promise resolves while the child is still running
RunningAtResolve(running, name) == running

\* executeStage resolves a started child on 'close', which is emitted once
\* the process has ended and its streams are closed
RunningAfterClose(running, name) == running \ {name}

\* what the orchestrator can find of its environment
EnvFiles == {"absent", "incomplete", "complete"}

\* a validation that does not ask for the runtimes
validateEnvironmentWithoutRuntimes(file, found) == file = "complete"

\* validateEnvironment(): the .env file exists, every required variable has a
\* value and node and python3 (or python) run
validateEnvironment(file, found) == file = "complete" /\ found

\* validateEnvironment(): createEnvTemplate writes the .env file that was
\* not there
EnvFileAfterValidation(file) == IF file = "absent" THEN "template" ELSE file

InitOrchestrator ==
    /\ clock = 0
    /\ state = DefaultState(0)
    /\ stateFile = NoFile
    /\ fsys = {}
    /\ archiveDirs = {}
    /\ alive = TRUE
    /\ lastOp = Did("construct", Null, Null)
    /\ StageIdle
    /\ readResult = Null
    /\ orchPc = "idle"
    /\ stageIndex = 1
    /\ children = {}
    /\ launched = <<>>
    /\ stageResults = <<>>
    /\ prompts = <<>>
    /\ envFile \in EnvFiles
    /\ runtimes \in BOOLEAN
    /\ runReturn = "none"
    /\ dlPc = "down"
    /\ dlRuns = 0
    /\ dlBatch = 1
    /\ dlTask = <<>>
    /\ dlAttempt = <<>>
    /\ audio = <<>>
    /\ dlWaits = <<>>
    /\ successCount = 0
    /\ failedCount = 0
    /\ peer = NoPeer

StageResult(name, status) == [stage |-> name, status |-> status]

\* the for loop goes to the next stage, or is over and run() prints the
\* summary and returns
NextStage ==
    IF stageIndex = Len(STAGES)
    THEN orchPc' = "done" /\ runReturn' = "true" /\ UNCHANGED stageIndex
    ELSE orchPc' = "launch" /\ stageIndex' = stageIndex + 1 /\ UNCHANGED runReturn

\* run() up to the loop: getProcessingStats() only reads, and false from
\* validateEnvironment makes run() return false
StartPipeline ==
    /\ orchPc = "idle"
    /\ envFile' = EnvFileAfterValidation(envFile)
    /\ IF validateEnvironment(envFile, runtimes)
       THEN orchPc' = "launch" /\ UNCHANGED runReturn
       ELSE orchPc' = "done" /\ runReturn' = "false"
    /\ UNCHANGED <<stageIndex, children, launched, stageResults, prompts, runtimes>>
    /\ UNCHANGED <<storeVars, stageVars, queryVars, downloadVars, peerVars>>

\* executeStage(stage) up to the return of spawn(); a child that could not be
\* started emits 'error' and the promise resolves false; a throw of spawn
\* rejects the promise and run() catches it
ExecuteStage(outcome) ==
    /\ orchPc = "launch"
    /\ launched' = Append(launched, STAGES[stageIndex])
    /\ CASE outcome = "started" ->
                /\ children' = children \cup {STAGES[stageIndex]}
                /\ orchPc' = "wait"
                /\ UNCHANGED stageResults
         [] outcome = "failed" ->
                /\ stageResults' = Append(stageResults, StageResult(STAGES[stageIndex], "failed"))
                /\ orchPc' = "prompt"
                /\ UNCHANGED children
         [] outcome = "threw" ->
                /\ stageResults' = Append(stageResults, StageResult(STAGES[stageIndex], "error"))
                /\ orchPc' = "prompt"
                /\ UNCHANGED children
    /\ UNCHANGED <<stageIndex, prompts, envFile, runtimes, runReturn>>
    /\ UNCHANGED <<storeVars, stageVars, queryVars, downloadVars, peerVars>>

\* child.on('close'): resolve(code === 0), and run() goes on
StageCloses(code) ==
    /\ orchPc = "wait"
    /\ children' = RunningAfterClose(children, STAGES[stageIndex])
    /\ IF code = 0
       THEN /\ stageResults' = Append(stageResults, StageResult(STAGES[stageIndex], "success"))
            /\ NextStage
       ELSE /\ stageResults' = Append(stageResults, StageResult(STAGES[stageIndex], "failed"))
            /\ orchPc' = "prompt"
            /\ UNCHANGED <<stageIndex, runReturn>>
    /\ UNCHANGED <<launched, prompts, envFile, runtimes>>
    /\ UNCHANGED <<storeVars, stageVars, queryVars, downloadVars, peerVars>>

\* the operator answers the question of promptContinue; run() breaks out of
\* the loop unless it resolves true
AnswerPrompt(answer) ==
    /\ orchPc = "prompt"
    /\ prompts' = Append(prompts, [stage |-> STAGES[stageIndex], answer |-> answer])
    /\ IF promptContinue(answer)
       THEN NextStage
       ELSE orchPc' = "done" /\ runReturn' = "true" /\ UNCHANGED stageIndex
    /\ UNCHANGED <<children, launched, stageResults, envFile, runtimes>>
    /\ UNCHANGED <<storeVars, stageVars, queryVars, downloadVars, peerVars>>

NextOrchestrator ==
    \/ StartPipeline
    \/ \E outcome \in SpawnOutcomes : ExecuteStage(outcome)
    \/ \E code \in ExitCodes : StageCloses(code)
    \/ \E answer \in Answers : AnswerPrompt(answer)

SpecOrchestrator == InitOrchestrator /\ [][NextOrchestrator]_vars

\* C17: the stage scripts are launched in the order of STAGES, each at most
\* once in a run, at most one stage process runs at any time, and a stage is
\* launched only when no stage process is running.
C17_StagesInOrderOneAtATime ==
    /\ [](/\ Cardinality(children) <= 1
          /\ Len(launched) <= Len(STAGES)
          /\ \A i \in 1..Len(launched) : launched[i] = STAGES[i])
    /\ [][launched' # launched => children = {}]_vars

\* the run is over with all five stages launched, one of which had failed,
\* and no stage process is left
C17_Witness ==
    /\ orchPc = "done"
    /\ launched = STAGES
    /\ children = {}
    /\ Len(stageResults) = Len(STAGES)
    /\ stageResults[2].status = "failed"
    /\ stageResults[5].status = "success"

YesAnswers == {"y", "Y"}

Last(q) == q[Len(q)]

\* C18: a stage that exits with a non-zero code, cannot be started or raises
\* an error is followed by the prompt before any stage is launched; the next
\* stage is launched only on the answer 'y' or 'Y', and after any other
\* answer no stage is launched in the run.
C18_PromptBeforeNextStage ==
    /\ [][(stageResults' # stageResults /\ Last(stageResults').status # "success")
            => orchPc' = "prompt"]_vars
    /\ [][(launched' # launched /\ stageResults # <<>> /\ Last(stageResults).status # "success")
            => /\ prompts # <<>>
               /\ Last(prompts).stage = Last(stageResults).stage
               /\ Last(prompts).answer \in YesAnswers]_vars
    /\ [][(prompts # <<>> /\ Last(prompts).answer \notin YesAnswers)
            => launched' = launched]_vars

\* stage 1 could not be started and the operator answered 'Y'; stage 2 was
\* launched, exited with a non-zero code and the operator answered 'yes':
\* the run is over with two stages launched
C18_Witness ==
    /\ orchPc = "done"
    /\ Len(prompts) = 2
    /\ prompts[1].answer = "Y"
    /\ prompts[2].answer = "yes"
    /\ launched = SubSeq(STAGES, 1, 2)
    /\ stageResults[1].status = "failed"
    /\ stageResults[2].status = "failed"

\* the environment passes the validation of the claim: the .env file is there
\* with every required variable, and the runtimes are found
EnvironmentValid == envFile = "complete" /\ runtimes

\* C30: when the environment is not valid (no .env file, a required variable
\* missing, or no runtime), run() returns false without launching a stage
\* process, without a stage result and without a change of the pipeline
\* state or its file, and nothing is launched afterwards.
C30_InvalidEnvironmentLaunchesNothing ==
    /\ []((~EnvironmentValid /\ orchPc # "idle") =>
            /\ runReturn = "false"
            /\ orchPc = "done"
            /\ launched = <<>>
            /\ children = {}
            /\ stageResults = <<>>
            /\ stateFile = NoFile)
    /\ [][(orchPc = "idle" /\ orchPc' # "idle" /\ ~EnvironmentValid) =>
            /\ runReturn' = "false"
            /\ stateFile' = stateFile
            /\ state' = state
            /\ fsys' = fsys]_vars

\* run() has returned false where there was no .env file: the template was
\* written and no stage was launched
C30_Witness ==
    /\ runReturn = "false"
    /\ envFile = "template"
    /\ launched = <<>>

-----------------------------------------------------------------------------
(* The download stage script: runs of downloadRecordings(), each in a       *)
(* process of its own that can be killed at any point                       *)

\* output/call_ids as the get_call_ids stage leaves it after a run over one
\* date with two calls: the file of the date and all_calls.xlsx, which holds
\* the rows of every date of the run, in the order readdirSync lists them
Workbooks ==
    << [file |-> "2025-01-01.xlsx",
        rows |-> << [call_id |-> "A", broker_id |-> "B1", recording_url |-> TRUE],
                    [call_id |-> "B", broker_id |-> "B1", recording_url |-> TRUE] >>],
       [file |-> "all_calls.xlsx",
        rows |-> << [call_id |-> "A", broker_id |-> "B1", recording_url |-> TRUE],
                    [call_id |-> "B", broker_id |-> "B1", recording_url |-> TRUE] >>] >>

\* the rows of every .xlsx file of the directory, one file after the other
RECURSIVE loadCallData(_)
loadCallData(books) ==
    IF books = <<>> THEN <<>> ELSE Head(books).rows \o loadCallData(Tail(books))

\* callData.filter(call => call.recording_url)
CallsWithRecordings ==
    LET HasRecording(call) == call.recording_url
    IN  SelectSeq(loadCallData(Workbooks), HasRecording)

\* `${call.broker_id}_${call.call_id}.wav`
AudioName(call) == [broker |-> call.broker_id, call |-> call.call_id, ext |-> "wav"]

AudioNames == {AudioName(CallsWithRecordings[i]) : i \in 1..Len(CallsWithRecordings)}

FileOf(i) == AudioName(CallsWithRecordings[i])

\* batches.length
BatchCount == (Len(CallsWithRecordings) + BatchSize - 1) \div BatchSize

\* the positions in callsWithRecordings of the calls of batch k
BatchOf(k) ==
    {i \in 1..Len(CallsWithRecordings) : (k - 1) * BatchSize < i /\ i <= k * BatchSize}

\* fs.existsSync(filepath)
ExistsSync(files, name) == files[name] # "none"

\* a batch that is taken as settled while files are still being written
SettledOrWriting(status) == status \in {"ok", "skipped", "failed", "writing"}

Settled(status) == status \in {"ok", "skipped", "failed"}

\* config.execution.retry_delay_seconds * 1000, the same expression at
\* every attempt
RetryDelay == "retry_delay_seconds * 1000"

\* how many calls of a batch have the given outcome
CountOf(tasks, k, status) == Cardinality({i \in BatchOf(k) : tasks[i] = status})

\* batch.map(async (call) => ...) up to the first await of each call: a call
\* whose file exists is skipped, the others start their first attempt
BatchStarted(tasks, files, k) ==
    [i \in 1..Len(CallsWithRecordings) |->
        IF i \in BatchOf(k)
        THEN IF ExistsSync(files, FileOf(i)) THEN "skipped" ELSE "request"
        ELSE tasks[i]]

InitDownload ==
    /\ clock = 0
    /\ state = DefaultState(0)
    /\ stateFile = NoFile
    /\ fsys = {}
    /\ archiveDirs = {}
    /\ alive = TRUE
    /\ lastOp = Did("construct", Null, Null)
    /\ StageIdle
    /\ readResult = Null
    /\ orchPc = "idle"
    /\ stageIndex = 1
    /\ children = {}
    /\ launched = <<>>
    /\ stageResults = <<>>
    /\ prompts = <<>>
    /\ envFile = "complete"
    /\ runtimes = TRUE
    /\ runReturn = "none"
    /\ dlPc = "down"
    /\ dlRuns = 0
    /\ dlBatch = 1
    /\ dlTask = [i \in 1..Len(CallsWithRecordings) |-> "idle"]
    /\ dlAttempt = [i \in 1..Len(CallsWithRecordings) |-> 1]
    /\ audio = [name \in AudioNames |-> "none"]
    /\ dlWaits = [i \in 1..Len(CallsWithRecordings) |-> <<>>]
    /\ successCount = 0
    /\ failedCount = 0
    /\ peer = NoPeer

\* the script is started: downloadRecordings() up to the await of the first
\* batch
StartDownload ==
    /\ dlPc \in {"down", "exit0", "exit1"}
    /\ dlRuns < MaxRuns
    /\ dlRuns' = dlRuns + 1
    /\ dlBatch' = 1
    /\ dlTask' = BatchStarted([i \in 1..Len(CallsWithRecordings) |-> "idle"], audio, 1)
    /\ dlAttempt' = [i \in 1..Len(CallsWithRecordings) |-> 1]
    /\ dlWaits' = [i \in 1..Len(CallsWithRecordings) |-> <<>>]
    /\ successCount' = 0
    /\ failedCount' = 0
    /\ dlPc' = "batch"
    /\ UNCHANGED audio
    /\ UNCHANGED <<storeVars, stageVars, queryVars, orchVars, peerVars>>

\* downloadFile: the request of an attempt throws; after the last attempt
\* the error goes to the caller, which counts the call as failed
RequestFails(i) ==
    /\ dlPc = "batch"
    /\ dlTask[i] = "request"
    /\ IF dlAttempt[i] = Retries
       THEN /\ dlTask' = [dlTask EXCEPT ![i] = "failed"]
            /\ UNCHANGED <<dlAttempt, dlWaits>>
       ELSE /\ dlWaits' = [dlWaits EXCEPT ![i] = Append(@, RetryDelay)]
            /\ dlAttempt' = [dlAttempt EXCEPT ![i] = @ + 1]
            /\ UNCHANGED dlTask
    /\ UNCHANGED <<dlPc, dlRuns, dlBatch, audio, successCount, failedCount>>
    /\ UNCHANGED <<storeVars, stageVars, queryVars, orchVars, peerVars>>

\* downloadFile: the response arrives and fs.createWriteStream(filepath)
\* creates the file, which the response is piped into
RequestSucceeds(i) ==
    /\ dlPc = "batch"
    /\ dlTask[i] = "request"
    /\ audio' = [audio EXCEPT ![FileOf(i)] = "partial"]
    /\ dlTask' = [dlTask EXCEPT ![i] = "writing"]
    /\ UNCHANGED <<dlPc, dlRuns, dlBatch, dlAttempt, dlWaits, successCount, failedCount>>
    /\ UNCHANGED <<storeVars, stageVars, queryVars, orchVars, peerVars>>

\* writer.on('finish', resolve)
WriteFinishes(i) ==
    /\ dlPc = "batch"
    /\ dlTask[i] = "writing"
    /\ audio' = [audio EXCEPT ![FileOf(i)] = "complete"]
    /\ dlTask' = [dlTask EXCEPT ![i] = "ok"]
    /\ UNCHANGED <<dlPc, dlRuns, dlBatch, dlAttempt, dlWaits, successCount, failedCount>>
    /\ UNCHANGED <<storeVars, stageVars, queryVars, orchVars, peerVars>>

\* writer.on('error', reject): the rejection is not caught in downloadFile
\* (the promise is returned, not awaited), so there is no further attempt and
\* the call is counted as failed; what was written stays on disk
WriteErrors(i) ==
    /\ dlPc = "batch"
    /\ dlTask[i] = "writing"
    /\ dlTask' = [dlTask EXCEPT ![i] = "failed"]
    /\ UNCHANGED <<dlPc, dlRuns, dlBatch, dlAttempt, audio, dlWaits, successCount, failedCount>>
    /\ UNCHANGED <<storeVars, stageVars, queryVars, orchVars, peerVars>>

\* await Promise.allSettled(promises) returns and the results of the batch
\* are counted (a skipped call in neither counter): the next batch is
\* started, or after the last batch main() exits with 0 if a file was
\* downloaded in this run and with 1 otherwise
EndBatch ==
    /\ dlPc = "batch"
    /\ \A i \in BatchOf(dlBatch) : Settled(dlTask[i])
    /\ successCount' = successCount + CountOf(dlTask, dlBatch, "ok")
    /\ failedCount' = failedCount + CountOf(dlTask, dlBatch, "failed")
    /\ IF dlBatch < BatchCount
       THEN /\ dlBatch' = dlBatch + 1
            /\ dlTask' = BatchStarted(dlTask, audio, dlBatch + 1)
            /\ UNCHANGED dlPc
       ELSE /\ dlPc' = IF successCount' > 0 THEN "exit0" ELSE "exit1"
            /\ UNCHANGED <<dlBatch, dlTask>>
    /\ UNCHANGED <<dlRuns, dlAttempt, audio, dlWaits>>
    /\ UNCHANGED <<storeVars, stageVars, queryVars, orchVars, peerVars>>

\* the process is killed (or the machine stops) while a batch is in
\* progress; the files are left as they are
KillDownload ==
    /\ dlPc = "batch"
    /\ dlPc' = "down"
    /\ UNCHANGED <<dlRuns, dlBatch, dlTask, dlAttempt, audio, dlWaits, successCount, failedCount>>
    /\ UNCHANGED <<storeVars, stageVars, queryVars, orchVars, peerVars>>

NextDownload ==
    \/ StartDownload
    \/ \E i \in 1..Len(CallsWithRecordings) : RequestFails(i)
    \/ \E i \in 1..Len(CallsWithRecordings) : RequestSucceeds(i)
    \/ \E i \in 1..Len(CallsWithRecordings) : WriteFinishes(i)
    \/ \E i \in 1..Len(CallsWithRecordings) : WriteErrors(i)
    \/ EndBatch
    \/ KillDownload

SpecDownload == InitDownload /\ [][NextDownload]_vars

\* C19: a run of the download stage skips a call as already downloaded only
\* if its audio file is complete: a call whose download failed or was
\* interrupted part-way in an earlier run is downloaded again.
C19_SkipsOnlyCompleteFiles ==
    \A i \in DOMAIN dlTask : dlTask[i] = "skipped" => audio[FileOf(i)] = "complete"

\* C23: downloadFile makes a fixed number of attempts with a fixed delay: a
\* download that has failed was attempted exactly `retries` times, a
\* download that has succeeded at attempt k was attempted k times (one wait
\* before each attempt after the first), and every wait is the same
\* configured delay.
C23_FixedCountFixedDelay ==
    \A i \in DOMAIN dlTask :
        /\ dlTask[i] = "failed" => dlAttempt[i] = Retries
        /\ dlTask[i] \in {"writing", "ok", "failed"} => Len(dlWaits[i]) = dlAttempt[i] - 1
        /\ \A j \in 1..Len(dlWaits[i]) : dlWaits[i][j] = RetryDelay

\* the calls whose download is in flight
InFlight(tasks) == {i \in DOMAIN tasks : tasks[i] \in {"request", "writing"}}

\* C24: at most batch_size downloads are in flight, all of the batch in
\* hand, with every call of the earlier batches settled and no call of the
\* later batches started; a download that fails leaves the other downloads
\* as they are; and when the run ends every call is settled as downloaded,
\* failed or skipped, with successCount the number of downloaded calls and
\* failedCount the number of failed calls.
C24_BatchesOneAfterTheOther ==
    /\ [](/\ Cardinality(InFlight(dlTask)) <= BatchSize
          /\ dlPc = "batch" =>
                \A i \in DOMAIN dlTask :
                    /\ i \in InFlight(dlTask) => i \in BatchOf(dlBatch)
                    /\ (\E k \in 1..(dlBatch - 1) : i \in BatchOf(k)) => Settled(dlTask[i])
                    /\ (\E k \in (dlBatch + 1)..BatchCount : i \in BatchOf(k)) => dlTask[i] = "idle"
          /\ dlPc \in {"exit0", "exit1"} =>
                /\ \A i \in DOMAIN dlTask : Settled(dlTask[i])
                /\ successCount = Cardinality({i \in DOMAIN dlTask : dlTask[i] = "ok"})
                /\ failedCount = Cardinality({i \in DOMAIN dlTask : dlTask[i] = "failed"})
                /\ successCount + failedCount
                        + Cardinality({i \in DOMAIN dlTask : dlTask[i] = "skipped"})
                    = Len(CallsWithRecordings))
    /\ [][\A i, j \in DOMAIN dlTask :
            (i # j /\ dlTask[j] # "failed" /\ dlTask'[j] = "failed" /\ dlPc' = "batch")
                => dlTask'[i] = dlTask[i]]_vars

\* a run has ended after two batches with a failed, a downloaded and a
\* skipped call
C24_Witness ==
    /\ dlPc = "exit0"
    /\ dlBatch = BatchCount
    /\ BatchCount > 1
    /\ failedCount > 0
    /\ successCount > 0
    /\ \E i \in DOMAIN dlTask : dlTask[i] = "skipped"

\* C29: no two downloads in flight write to the same output file.
C29_NoTwoWritersOfOneFile ==
    \A i, j \in DOMAIN dlTask :
        (i # j /\ dlTask[i] = "writing" /\ dlTask[j] = "writing") => FileOf(i) # FileOf(j)

-----------------------------------------------------------------------------
(* Two processes, each with a PipelineState of its own on the same state    *)
(* file (a stage script beside the orchestrator, or two stage scripts); the *)
(* first process works on call B, the second on either call                 *)

\* the second process constructs its PipelineState
PeerConstruct ==
    /\ ~peer.alive
    /\ peer' = [alive |-> TRUE, doc |-> LoadState(stateFile, clock)]
    /\ UNCHANGED <<storeVars, stageVars, queryVars, orchVars, downloadVars>>

\* a mutator of the second process: its own document is updated and written
\* over the file
PeerMutator(doc, op) ==
    /\ peer.alive
    /\ clock < MaxOps
    /\ peer' = [alive |-> TRUE, doc |-> Stamped(doc, clock)]
    /\ stateFile' = Written(doc, clock)
    /\ clock' = clock + 1
    /\ lastOp' = op
    /\ UNCHANGED <<state, fsys, archiveDirs, alive>>
    /\ UNCHANGED <<stageVars, queryVars, orchVars, downloadVars>>

PeerMarkAudioDownloaded(callId) ==
    PeerMutator(AfterMarkAudioDownloaded(peer.doc, callId, "B1",
                                         [broker |-> "B1", call |-> callId, ext |-> "wav"],
                                         WorkPath([broker |-> "B1", call |-> callId, ext |-> "wav"]),
                                         clock),
                Did("peerMark", "download_audio", callId))

PeerMarkTranscribed(callId) ==
    PeerMutator(AfterMarkTranscribed(peer.doc, callId, TranscriptName("B1", callId),
                                     TranscriptPath("B1", callId), clock),
                Did("peerMark", "transcribe", callId))

NextPeers ==
    \/ PeerConstruct
    \/ \E c \in Calls : PeerMarkAudioDownloaded(c)
    \/ \E c \in Calls : PeerMarkTranscribed(c)
    \/ \E r \in DateRanges : Api /\ markDateRangeProcessed(r[1], r[2], 3)
    \/ Api /\ markAudioDownloaded("B")
    \/ Api /\ markAudioDownloadFailed("B")
    \/ Api /\ markTranscribed("B")
    \/ Api /\ markTranscriptionFailed("B")
    \/ Api /\ markAudioUploaded("B")
    \/ Api /\ markAudioUploadFailed("B")
    \/ Api /\ markAnalyzed("B", FullAnalysis)
    \/ Api /\ markAnalysisFailed("B")
    \/ \E s \in StageNames : Api /\ retryFailed(s)
    \/ Api /\ archiveFile(TranscriptPath("B1", "B"), "transcripts", "B")

SpecPeers == Init /\ [][NextPeers]_vars

\* the first process has performed a mutator that saved
SavedByFirst ==
    /\ Stepped
    /\ lastOp'.op # "peerMark"
    /\ ~(lastOp'.op = "archiveFile" /\ lastOp'.ret = "null")

\* C25: with two processes on one state file, a mutator of one process
\* writes that process's own document over the file, so every completed mark
\* that the file holds and the document of the writing process lacks is gone
\* from the file afterwards (a lost update); the witness is an interleaving
\* in which this happens to a mark the other process had persisted.
C25_LostUpdate ==
    [][SavedByFirst =>
        /\ stateFile'.kind = "json"
        /\ \A s \in CallStages, c \in Calls :
                (IsDone(stateFile.text, s, c) /\ ~IsDone(state, s, c)
                    /\ lastOp' # Did("mark", s, c))
                => ~IsDone(stateFile'.text, s, c)]_vars

\* the second process marked A transcribed and saved it; then the first
\* process, constructed before that, recorded a failure of B: the file no
\* longer has A transcribed
C25_Witness ==
    /\ peer.alive
    /\ isTranscribed(peer.doc, "A")
    /\ lastOp = Did("markFailed", "analyze", "B")
    /\ stateFile.kind = "json"
    /\ ~isTranscribed(stateFile.text, "A")

====
